---- MODULE Spec2Model ----
(***************************************************************************)
(* Block-following scheduler of rpc-test (src/src/index.ts, second         *)
(* program of the file, lines 236-482): startScheduler, processBlock and   *)
(* the FetchRequest hooks.  One scheduler loop is modelled together with   *)
(* every processBlock invocation it has started, including invocations     *)
(* that outlive the batch join that started them.                          *)
(* Time is the value of Date.now() minus cfg.startTimeMs.  Each provider   *)
(* method is one request; the log-only counters totalReqs and totalCallMs  *)
(* are not part of the state.                                              *)
(***************************************************************************)
EXTENDS Integers, Sequences, FiniteSets, TLC

\* ---------------------------------------------------------------- bounds
MaxTip == 4          \* heights a tip poll can return: 0..MaxTip
MaxTxs == 3          \* transactions of the largest block of the chain
MaxDispatch == 3     \* batches dispatched plus invocations raised in one run
MaxTime == 400       \* last clock value explored
TickMs == 200        \* clock granularity
TargetMs == 200      \* targetRunningTimeMs of the runs bounded by a duration

\* ------------------------------------------------------------- constants
Undefined == -1      \* an optional TestConfig field that is not set
SLEEP_MS == 200      \* sleep(200) when the pointer caught up with the tip

Min(a, b) == IF a <= b THEN a ELSE b

\* TestConfig (startTimeMs is the origin of the clock, rpcUrl is not modelled)
Config(s, f, t, b) ==
  [startBlockNumber |-> s, finishBlockNumber |-> f,
   targetRunningTimeMs |-> t, batchSize |-> b]

\* block.transactions.length for each block number of a chain: a chain of
\* small blocks, and a chain whose first block is large
SmallBlocks == [n \in 1..(MaxTip + 1) |-> n % 2]
LargeBlock == [n \in 1..(MaxTip + 1) |-> IF n = 1 THEN MaxTxs ELSE 0]

\* the runs explored, each a TestConfig and the chain it follows: bounded by a
\* finish block (finishBlockNumber = startBlockNumber + 2 * batchSize - 1),
\* bounded by a duration, bounded by both, unbounded with the start resolved
\* from the tip, bounded by a finish block with batches of one, and bounded by
\* a duration with the start resolved from the tip (the shape of main's
\* config), and bounded by a finish block that a batch of two can pass, with
\* the start resolved from the tip
Runs ==
  { <<Config(0, 0 + 2 * 2 - 1, Undefined, 2), SmallBlocks>>,
    <<Config(0, Undefined, TargetMs, 2), SmallBlocks>>,
    <<Config(0, 1, TargetMs, 1), LargeBlock>>,
    <<Config(Undefined, Undefined, Undefined, 1), SmallBlocks>>,
    <<Config(0, 0 + 2 * 1 - 1, Undefined, 1), SmallBlocks>>,
    <<Config(Undefined, Undefined, TargetMs, 1), SmallBlocks>>,
    <<Config(Undefined, 0, Undefined, 2), SmallBlocks>> }

VARIABLES
  cfg,                    \* TestConfig of the loop
  chain,                  \* number of transactions of each block of the chain
  now,                    \* Date.now() - cfg.startTimeMs
  pc,                     \* position of startScheduler
  startBlockNumber,       \* const startBlockNumber
  currBlockNumber,        \* let currBlockNumber
  prevLatestBlockNumber,  \* let prevLatestBlockNumber (declared in the loop body)
  batchSize,              \* const batchSize of the iteration
  wakeAt,                 \* the instant the pending sleep(200) may resolve
  totalCalls,             \* let totalCalls   (fetch.processFunc)
  failCalls,              \* let failCalls
  timeoutCalls,           \* let timeoutCalls
  retryCalls,             \* let retryCalls   (fetch.retryFunc)
  procs,                  \* processBlock invocations (promises) not yet collected
  gen,                    \* number of batches dispatched; identifies the batch
  raises,                 \* number of processBlock invocations that have raised
  advances,               \* number of executions of `currBlockNumber += batchSize`
  lastTip,                \* height returned by the latest tip poll of the loop
  highTip,                \* highest height returned by a tip poll of the loop
  result,                 \* the TestResult returned by startScheduler
  focus,                  \* index of the startScheduler call the variables above belong to
  parked,                 \* the variables of the other startScheduler calls of main
  mainPc                  \* position of main

vars == <<cfg, chain, now, pc, startBlockNumber, currBlockNumber, prevLatestBlockNumber,
          batchSize, wakeAt, totalCalls, failCalls, timeoutCalls, retryCalls,
          procs, gen, raises, advances, lastTip, highTip, result,
          focus, parked, mainPc>>

orch == <<focus, parked, mainPc>>
counters == <<totalCalls, failCalls, timeoutCalls, retryCalls>>
ghosts == <<raises, advances, lastTip, highTip>>

NoResult == [calls |-> 0, failCalls |-> 0, retryCalls |-> 0,
             startBlockNumber |-> 0, finishBlockNumber |-> 0]

\* --------------------------------------------------------- pure helpers
RECURSIVE SumSeq(_)
SumSeq(s) == IF s = <<>> THEN 0 ELSE Head(s) + SumSeq(Tail(s))

\* reason.includes("timeout")
IncludesTimeout(reason) == reason = "timeout"

\* a promise of provider.getTransactionReceipt that has been rejected
IsRejected(r) == r \in {"error", "timeout"}

\* processBlock's loop over the settled receipts: one Failure per rejected
\* promise, in transaction order (the Failure is reduced to its reason)
Failures(receipts) == SelectSeq(receipts, IsRejected)

\* Promise.allSettled(promises) has resolved
AllSettled(receipts) == \A i \in 1..Len(receipts) : receipts[i] # "pending"

\* Math.min(cfg.batchSize, latestBlockNumber - currBlockNumber)
BatchWidthFull(size, latest, curr) == size
BatchWidth(size, latest, curr) == Min(size, latest - curr)

\* if (currBlockNumber >= latestBlockNumber)
CaughtUpStrict(curr, latest) == curr > latest
CaughtUp(curr, latest) == curr >= latest

\* the catch block only logs: the pointer is what it was when the batch was
\* dispatched
PointerAfterCatchSkip(curr, width) == curr + width
PointerAfterCatch(curr, width) == curr

\* processBlock(idx, cfg, provider, currBlockNumber + batchIdx + 1)
BatchBlock(curr, batchIdx) == curr + batchIdx + 1

\* the statements after the counting loop: the retry `continue` is commented
\* out, so currBlockNumber += batchSize runs whether or not isFailed
NextPointerRetry(curr, width, isFailed) == IF isFailed THEN curr ELSE curr + width
NextPointerSkip(curr, width, isFailed) == curr + width + 1
NextPointer(curr, width, isFailed) == curr + width

\* finishBlockNumber: currBlockNumber - 1
FinalBlockNext(curr) == curr
FinalBlock(curr) == curr - 1

\* if (finishBlockNumber != undefined && currBlockNumber > finishBlockNumber)
ReachedFinishAt(curr) ==
  cfg.finishBlockNumber # Undefined /\ curr >= cfg.finishBlockNumber
ReachedFinish(curr) ==
  cfg.finishBlockNumber # Undefined /\ curr > cfg.finishBlockNumber

\* if (cfg.targetRunningTimeMs != undefined && (loopStartTime - cfg.startTimeMs) >= ...)
ReachedTimeAfter(t) ==
  cfg.targetRunningTimeMs # Undefined /\ t > cfg.targetRunningTimeMs
ReachedTimeUnset(t) == t >= cfg.targetRunningTimeMs
ReachedTime(t) ==
  cfg.targetRunningTimeMs # Undefined /\ t >= cfg.targetRunningTimeMs

\* if (prevLatestBlockNumber != 0 && prevLatestBlockNumber > latestBlockNumber)
IsRollback(prev, latest) == prev # 0 /\ prev > latest

InFlight(p) == p.st \in {"getBlock", "receipts"}
Batch == {p \in procs : p.gen = gen}
ProcOf(n) == CHOOSE p \in Batch : p.blockNumber = n

\* the variables declared by the call of startScheduler that is running (with
\* its config and the chain behind its rpcUrl)
Running ==
  [cfg |-> cfg, chain |-> chain, pc |-> pc, startBlockNumber |-> startBlockNumber,
   currBlockNumber |-> currBlockNumber,
   prevLatestBlockNumber |-> prevLatestBlockNumber, batchSize |-> batchSize,
   wakeAt |-> wakeAt, totalCalls |-> totalCalls, failCalls |-> failCalls,
   timeoutCalls |-> timeoutCalls, retryCalls |-> retryCalls, procs |-> procs,
   gen |-> gen, raises |-> raises, advances |-> advances, lastTip |-> lastTip,
   highTip |-> highTip, result |-> result]

\* the variables of a call of startScheduler that was just made
Launched(run) ==
  [cfg |-> run[1], chain |-> run[2], pc |-> "start",
   startBlockNumber |-> Undefined, currBlockNumber |-> Undefined,
   prevLatestBlockNumber |-> 0, batchSize |-> 0, wakeAt |-> 0, totalCalls |-> 0,
   failCalls |-> 0, timeoutCalls |-> 0, retryCalls |-> 0, procs |-> {},
   gen |-> 0, raises |-> 0, advances |-> 0, lastTip |-> Undefined,
   highTip |-> Undefined, result |-> NoResult]

\* every call of startScheduler made by main
Schedulers == [i \in DOMAIN parked \cup {focus} |->
                 IF i = focus THEN Running ELSE parked[i]]

\* batches dispatched plus invocations raised, over all the schedulers
RECURSIVE LoadOf(_)
LoadOf(S) ==
  IF S = {} THEN 0
  ELSE LET i == CHOOSE j \in S : TRUE
       IN parked[i].gen + parked[i].raises + LoadOf(S \ {i})
Load == gen + raises + LoadOf(DOMAIN parked)

\* ----------------------------------------------------------------- Init
Init ==
  /\ focus = 0 /\ parked = <<>> /\ mainPc = "awaiting"
  /\ \E run \in Runs : cfg = run[1] /\ chain = run[2]
  /\ now = 0
  /\ pc = "start"
  /\ startBlockNumber = Undefined
  /\ currBlockNumber = Undefined
  /\ prevLatestBlockNumber = 0
  /\ batchSize = 0
  /\ wakeAt = 0
  /\ totalCalls = 0 /\ failCalls = 0 /\ timeoutCalls = 0 /\ retryCalls = 0
  /\ procs = {}
  /\ gen = 0 /\ raises = 0 /\ advances = 0 /\ lastTip = Undefined
  /\ highTip = Undefined
  /\ result = NoResult


\* --------------------------------------------------- instrumentation hook
\* fetch.processFunc: totalCalls++ for every response that arrives
ProcessFunc(calls, hasResponse) == IF hasResponse THEN calls + 1 ELSE calls

\* fetch.retryFunc: `return false` is its first statement
RetryFuncThrottle(statusCode, attempt) == statusCode = 429 /\ attempt <= 3
RetryFunc(statusCode, attempt) == FALSE

\* the process is running: process.exit(1) was not called and startScheduler's
\* promise was not rejected (main does not catch the rejection)
Alive == pc \notin {"exited", "rejected"}

\* -------------------------------------------------------- startScheduler
\* const startBlockNumber = cfg.startBlockNumber ?? await provider.getBlockNumber()
Start ==
  /\ pc = "start"
  /\ IF cfg.startBlockNumber # Undefined
       THEN /\ startBlockNumber' = cfg.startBlockNumber
            /\ currBlockNumber' = cfg.startBlockNumber
            /\ pc' = "top"
       ELSE /\ pc' = "resolving"
            /\ UNCHANGED <<startBlockNumber, currBlockNumber>>
  /\ UNCHANGED <<orch, cfg, chain, now, prevLatestBlockNumber, batchSize, wakeAt, counters,
                 procs, gen, ghosts, result>>

\* the initial provider.getBlockNumber() answers h
ResolveStart(h) ==
  /\ pc = "resolving"
  /\ totalCalls' = ProcessFunc(totalCalls, TRUE)
  /\ startBlockNumber' = h
  /\ currBlockNumber' = h
  /\ pc' = "top"
  /\ UNCHANGED <<orch, cfg, chain, now, prevLatestBlockNumber, batchSize, wakeAt, failCalls,
                 timeoutCalls, retryCalls, procs, gen, ghosts, result>>

\* the initial provider.getBlockNumber() rejects: it is outside the try block,
\* so the promise of startScheduler rejects
ResolveStartFail(hasResponse) ==
  /\ pc = "resolving"
  /\ totalCalls' = ProcessFunc(totalCalls, hasResponse)
  /\ pc' = "rejected"
  /\ UNCHANGED <<orch, cfg, chain, now, startBlockNumber, currBlockNumber,
                 prevLatestBlockNumber, batchSize, wakeAt, failCalls,
                 timeoutCalls, retryCalls, procs, gen, ghosts, result>>

\* the object returned after the loop (idx, finishTimeMs, totalCallMs and
\* rpcUrl are not modelled)
TestResult ==
  [calls |-> totalCalls, failCalls |-> failCalls, retryCalls |-> retryCalls,
   startBlockNumber |-> startBlockNumber,
   finishBlockNumber |-> FinalBlock(currBlockNumber)]

\* the head of `while (true)`: the two stopping conditions, then
\* `let prevLatestBlockNumber = 0` and the tip poll is issued
LoopTop ==
  /\ pc = "top"
  /\ IF ReachedFinish(currBlockNumber) \/ ReachedTime(now)
       THEN /\ pc' = "stopped"
            /\ result' = TestResult
            /\ UNCHANGED <<prevLatestBlockNumber, batchSize>>
       ELSE /\ prevLatestBlockNumber' = 0
            /\ batchSize' = 0
            /\ pc' = "polling"
            /\ UNCHANGED result
  /\ UNCHANGED <<orch, cfg, chain, now, startBlockNumber, currBlockNumber, wakeAt,
                 counters, procs, gen, ghosts>>

\* the promises of the new batch; settled promises of earlier batches are
\* no longer referenced
Dispatched(curr, width, g) ==
  { [gen |-> g, blockNumber |-> BatchBlock(curr, batchIdx), st |-> "getBlock",
     fetched |-> FALSE, receipts |-> <<>>, fails |-> <<>>] :
       batchIdx \in 0..(width - 1) }

\* provider.getBlockNumber() answers h: rollback check, caught-up check,
\* or dispatch of a batch
TipOk(h) ==
  /\ pc = "polling"
  /\ totalCalls' = ProcessFunc(totalCalls, TRUE)
  /\ lastTip' = h
  /\ highTip' = IF h > highTip THEN h ELSE highTip
  /\ IF IsRollback(prevLatestBlockNumber, h)
       THEN /\ pc' = "exited"
            /\ UNCHANGED <<prevLatestBlockNumber, batchSize, wakeAt, procs, gen>>
       ELSE /\ prevLatestBlockNumber' = h
            /\ IF CaughtUp(currBlockNumber, h)
                 THEN /\ pc' = "sleeping"
                      /\ wakeAt' = now + SLEEP_MS
                      /\ UNCHANGED <<batchSize, procs, gen>>
                 ELSE /\ Load < MaxDispatch
                      /\ batchSize' = BatchWidth(cfg.batchSize, h, currBlockNumber)
                      /\ gen' = gen + 1
                      /\ procs' = {p \in procs : InFlight(p)} \cup
                                  Dispatched(currBlockNumber, batchSize', gen')
                      /\ pc' = "joining"
                      /\ UNCHANGED wakeAt
  /\ UNCHANGED <<orch, cfg, chain, now, startBlockNumber, currBlockNumber, failCalls,
                 timeoutCalls, retryCalls, raises, advances, result>>

\* provider.getBlockNumber() rejects inside the try block: the catch logs it
TipFail(hasResponse) ==
  /\ pc = "polling"
  /\ totalCalls' = ProcessFunc(totalCalls, hasResponse)
  /\ pc' = "top"
  /\ UNCHANGED <<orch, cfg, chain, now, startBlockNumber, currBlockNumber,
                 prevLatestBlockNumber, batchSize, wakeAt, failCalls,
                 timeoutCalls, retryCalls, procs, gen, ghosts, result>>

\* the timer of sleep(200) fires; `continue`
Wake ==
  /\ pc = "sleeping"
  /\ now >= wakeAt
  /\ pc' = "top"
  /\ wakeAt' = 0
  /\ UNCHANGED <<orch, cfg, chain, now, startBlockNumber, currBlockNumber,
                 prevLatestBlockNumber, batchSize, counters, procs, gen,
                 ghosts, result>>

\* ----------------------------------------------------------- processBlock
\* invocation p becomes q.  When q raised and the loop is awaiting the
\* Promise.all of p's batch, Promise.all rejects and the catch block runs.
Settle(p, q) ==
  LET caught == q.st = "raised" /\ pc = "joining" /\ p.gen = gen
  IN /\ procs' = (procs \ {p}) \cup {q}
     /\ raises' = IF q.st = "raised" THEN raises + 1 ELSE raises
     /\ pc' = IF caught THEN "top" ELSE pc
     /\ currBlockNumber' = IF caught
                              THEN PointerAfterCatch(currBlockNumber, batchSize)
                              ELSE currBlockNumber

\* provider.getBlock(blockNumber) answers a block with k transactions
GetBlockOk(p, k) ==
  /\ Alive /\ p \in procs /\ p.st = "getBlock"
  /\ totalCalls' = ProcessFunc(totalCalls, TRUE)
  /\ Settle(p, [p EXCEPT !.st = "receipts", !.fetched = TRUE,
                         !.receipts = [i \in 1..k |-> "pending"]])
  /\ UNCHANGED <<orch, cfg, chain, now, startBlockNumber,
                 prevLatestBlockNumber, batchSize, wakeAt, failCalls,
                 timeoutCalls, retryCalls, gen, advances, lastTip, highTip, result>>

\* provider.getBlock answers null: throw Error(`Can't find ... block`)
GetBlockNull(p) ==
  /\ Alive /\ p \in procs /\ p.st = "getBlock"
  /\ Load < MaxDispatch
  /\ totalCalls' = ProcessFunc(totalCalls, TRUE)
  /\ Settle(p, [p EXCEPT !.st = "raised"])
  /\ UNCHANGED <<orch, cfg, chain, now, startBlockNumber,
                 prevLatestBlockNumber, batchSize, wakeAt, failCalls,
                 timeoutCalls, retryCalls, gen, advances, lastTip, highTip, result>>

\* provider.getBlock rejects (error response, or no response at all)
GetBlockFail(p, hasResponse) ==
  /\ Alive /\ p \in procs /\ p.st = "getBlock"
  /\ Load < MaxDispatch
  /\ totalCalls' = ProcessFunc(totalCalls, hasResponse)
  /\ Settle(p, [p EXCEPT !.st = "raised"])
  /\ UNCHANGED <<orch, cfg, chain, now, startBlockNumber,
                 prevLatestBlockNumber, batchSize, wakeAt, failCalls,
                 timeoutCalls, retryCalls, gen, advances, lastTip, highTip, result>>

\* provider.getTransactionReceipt(txs[i]) fulfils
ReceiptOk(p, i) ==
  /\ Alive /\ p \in procs /\ p.st = "receipts"
  /\ i \in 1..Len(p.receipts) /\ p.receipts[i] = "pending"
  /\ totalCalls' = ProcessFunc(totalCalls, TRUE)
  /\ Settle(p, [p EXCEPT !.receipts[i] = "fulfilled"])
  /\ UNCHANGED <<orch, cfg, chain, now, startBlockNumber,
                 prevLatestBlockNumber, batchSize, wakeAt, failCalls,
                 timeoutCalls, retryCalls, gen, advances, lastTip, highTip, result>>

\* provider.getTransactionReceipt(txs[i]) rejects; the .catch logs and rethrows.
\* A request that timed out has no response.
ReceiptFail(p, i, reason, hasResponse) ==
  /\ Alive /\ p \in procs /\ p.st = "receipts"
  /\ i \in 1..Len(p.receipts) /\ p.receipts[i] = "pending"
  /\ IncludesTimeout(reason) => ~hasResponse
  /\ totalCalls' = ProcessFunc(totalCalls, hasResponse)
  /\ Settle(p, [p EXCEPT !.receipts[i] = reason])
  /\ UNCHANGED <<orch, cfg, chain, now, startBlockNumber,
                 prevLatestBlockNumber, batchSize, wakeAt, failCalls,
                 timeoutCalls, retryCalls, gen, advances, lastTip, highTip, result>>

\* a request of processBlock is answered with status 429: the FetchRequest
\* asks retryFunc whether to send it again.  A request sent again stays
\* pending (retryCalls++ is in the hook); one that is not ends as an error
\* response
GetBlockThrottled(p) ==
  IF RetryFunc(429, 0)
    THEN /\ Alive /\ p \in procs /\ p.st = "getBlock"
         /\ retryCalls' = retryCalls + 1
         /\ UNCHANGED <<orch, cfg, chain, now, pc, startBlockNumber, currBlockNumber,
                        prevLatestBlockNumber, batchSize, wakeAt, totalCalls,
                        failCalls, timeoutCalls, procs, gen, ghosts, result>>
    ELSE GetBlockFail(p, TRUE)

ReceiptThrottled(p, i) ==
  IF RetryFunc(429, 0)
    THEN /\ Alive /\ p \in procs /\ p.st = "receipts"
         /\ i \in 1..Len(p.receipts) /\ p.receipts[i] = "pending"
         /\ retryCalls' = retryCalls + 1
         /\ UNCHANGED <<orch, cfg, chain, now, pc, startBlockNumber, currBlockNumber,
                        prevLatestBlockNumber, batchSize, wakeAt, totalCalls,
                        failCalls, timeoutCalls, procs, gen, ghosts, result>>
    ELSE ReceiptFail(p, i, "error", TRUE)

\* how processBlock ends once the receipts are collected: `return fails`
\* (the throw on fails.length > 0 is commented out)
OutcomeThrow(fails) == IF Len(fails) > 0 THEN "raised" ELSE "returned"
Outcome(fails) == "returned"

\* Promise.allSettled(promises) resolved: collect the failures and return
ProcReturn(p) ==
  /\ Alive /\ p \in procs /\ p.st = "receipts"
  /\ AllSettled(p.receipts)
  /\ LET fails == Failures(p.receipts)
     IN Settle(p, [p EXCEPT !.st = Outcome(fails), !.fails = fails])
  /\ UNCHANGED <<orch, cfg, chain, now, startBlockNumber,
                 prevLatestBlockNumber, batchSize, wakeAt, counters, gen,
                 advances, lastTip, highTip, result>>

\* ----------------------------------------------------------- batch join
\* const results = await Promise.all(promises), in batchIdx order
Results == [b \in 1..batchSize |-> ProcOf(BatchBlock(currBlockNumber, b - 1)).fails]

CountTimeouts(fails) == Len(SelectSeq(fails, IncludesTimeout))

\* Promise.all resolved: count the failures, advance the pointer
JoinAll ==
  /\ pc = "joining"
  /\ \A p \in Batch : p.st = "returned"
  /\ LET nFails == SumSeq([b \in 1..batchSize |-> Len(Results[b])])
         nTimeouts == SumSeq([b \in 1..batchSize |-> CountTimeouts(Results[b])])
     IN /\ failCalls' = failCalls + nFails
        /\ timeoutCalls' = timeoutCalls + nTimeouts
        /\ currBlockNumber' = NextPointer(currBlockNumber, batchSize, nFails > 0)
  /\ advances' = advances + 1
  /\ pc' = "top"
  /\ UNCHANGED <<orch, cfg, chain, now, startBlockNumber, prevLatestBlockNumber, batchSize,
                 wakeAt, totalCalls, retryCalls, procs, gen, raises, lastTip, highTip,
                 result>>

\* ---------------------------------------------------------------- clock
\* time passes.  The clock is read by the duration check at the head of the
\* loop and by the timer of sleep, so its passage is followed while a sleep is
\* pending or the configured duration has not elapsed
Tick ==
  /\ pc \notin {"stopped", "exited", "rejected"}
  /\ pc = "sleeping" \/ (cfg.targetRunningTimeMs # Undefined /\ ~ReachedTime(now))
  /\ now + TickMs <= MaxTime
  /\ now' = now + TickMs
  /\ UNCHANGED <<orch, cfg, chain, pc, startBlockNumber, currBlockNumber,
                 prevLatestBlockNumber, batchSize, wakeAt, counters, procs, gen,
                 ghosts, result>>

Next ==
  \/ Start
  \/ \E h \in 0..MaxTip : ResolveStart(h)
  \/ ResolveStartFail(FALSE)
  \/ LoopTop
  \/ \E h \in 0..MaxTip : TipOk(h)
  \/ TipFail(FALSE)
  \/ Wake
  \/ \E p \in procs : GetBlockOk(p, chain[p.blockNumber])
  \/ \E p \in procs : GetBlockNull(p)
  \/ \E p \in procs : GetBlockFail(p, FALSE)
  \/ \E p \in procs, i \in 1..MaxTxs : ReceiptOk(p, i)
  \/ \E p \in procs, i \in 1..MaxTxs :
       \/ ReceiptFail(p, i, "error", TRUE)
       \/ ReceiptFail(p, i, "timeout", FALSE)
  \/ \E p \in procs : GetBlockThrottled(p)
  \/ \E p \in procs, i \in 1..MaxTxs : ReceiptThrottled(p, i)
  \/ \E p \in procs : ProcReturn(p)
  \/ JoinAll
  \/ Tick

Spec == Init /\ [][Next]_vars

\* ------------------------------------------------------------------ main
\* the configs of a main that launches two schedulers
MainRuns ==
  [i \in 0..1 |-> IF i = 0 THEN <<Config(0, 0, Undefined, 1), SmallBlocks>>
                           ELSE <<Config(Undefined, 0, Undefined, 1), SmallBlocks>>]

\* for (i < configs.length) promises.push(startScheduler(i, configs[i]))
MainInit ==
  /\ focus = 0
  /\ parked = [i \in (DOMAIN MainRuns) \ {0} |-> Launched(MainRuns[i])]
  /\ mainPc = "awaiting"
  /\ cfg = MainRuns[0][1] /\ chain = MainRuns[0][2]
  /\ now = 0
  /\ pc = "start"
  /\ startBlockNumber = Undefined
  /\ currBlockNumber = Undefined
  /\ prevLatestBlockNumber = 0
  /\ batchSize = 0
  /\ wakeAt = 0
  /\ totalCalls = 0 /\ failCalls = 0 /\ timeoutCalls = 0 /\ retryCalls = 0
  /\ procs = {}
  /\ gen = 0 /\ raises = 0 /\ advances = 0 /\ lastTip = Undefined
  /\ highTip = Undefined
  /\ result = NoResult

\* the process runs: no unhandled rejection ended it and no scheduler called
\* process.exit(1)
ProcessAlive ==
  /\ mainPc # "crashed"
  /\ \A i \in DOMAIN Schedulers : Schedulers[i].pc # "exited"

\* the counters are `let` variables of startScheduler: the call that runs
\* next finds its own
CountersShared(own, running) == running
CountersOf(own, running) == own

\* the event loop runs a continuation of scheduler i next
Switch(i) ==
  /\ ProcessAlive
  /\ i \in DOMAIN parked
  /\ focus' = i
  /\ parked' = [j \in ((DOMAIN parked) \ {i}) \cup {focus} |->
                  IF j = focus THEN Running ELSE parked[j]]
  /\ cfg' = parked[i].cfg /\ chain' = parked[i].chain
  /\ pc' = parked[i].pc
  /\ startBlockNumber' = parked[i].startBlockNumber
  /\ currBlockNumber' = parked[i].currBlockNumber
  /\ prevLatestBlockNumber' = parked[i].prevLatestBlockNumber
  /\ batchSize' = parked[i].batchSize
  /\ wakeAt' = parked[i].wakeAt
  /\ LET own == CountersOf(<<parked[i].totalCalls, parked[i].failCalls,
                              parked[i].timeoutCalls, parked[i].retryCalls>>,
                            counters)
     IN /\ totalCalls' = own[1] /\ failCalls' = own[2]
        /\ timeoutCalls' = own[3] /\ retryCalls' = own[4]
  /\ procs' = parked[i].procs
  /\ gen' = parked[i].gen
  /\ raises' = parked[i].raises /\ advances' = parked[i].advances
  /\ lastTip' = parked[i].lastTip /\ highTip' = parked[i].highTip
  /\ result' = parked[i].result
  /\ UNCHANGED <<now, mainPc>>

\* await Promise.all(promises) resolved: every scheduler returned its
\* TestResult, and the summary is printed
Render ==
  /\ ProcessAlive
  /\ mainPc = "awaiting"
  /\ \A i \in DOMAIN Schedulers : Schedulers[i].pc = "stopped"
  /\ mainPc' = "rendered"
  /\ UNCHANGED <<cfg, chain, now, pc, startBlockNumber, currBlockNumber,
                 prevLatestBlockNumber, batchSize, wakeAt, counters, procs, gen,
                 ghosts, result, focus, parked>>

\* await Promise.all(promises) rejected: the promise of one scheduler
\* rejected, and main() rejects with it
MainReject ==
  /\ ProcessAlive
  /\ mainPc = "awaiting"
  /\ \E i \in DOMAIN Schedulers : Schedulers[i].pc = "rejected"
  /\ mainPc' = "rejected"
  /\ UNCHANGED <<cfg, chain, now, pc, startBlockNumber, currBlockNumber,
                 prevLatestBlockNumber, batchSize, wakeAt, counters, procs, gen,
                 ghosts, result, focus, parked>>

\* nothing handles the rejection of main(): the runtime may end the process
\* on the unhandled rejection, or only report it
Crash ==
  /\ mainPc = "rejected"
  /\ mainPc' = "crashed"
  /\ UNCHANGED <<cfg, chain, now, pc, startBlockNumber, currBlockNumber,
                 prevLatestBlockNumber, batchSize, wakeAt, counters, procs, gen,
                 ghosts, result, focus, parked>>

\* a step of the scheduler that is running
SchedulerStep == ProcessAlive /\ Next

MainNext ==
  \/ SchedulerStep
  \/ \E i \in DOMAIN parked : Switch(i)
  \/ Render
  \/ MainReject
  \/ Crash

MainSpec == MainInit /\ [][MainNext]_vars

\* fair scheduling: the event loop runs every continuation that is ready and
\* every pending RPC call or timer completes (weak fairness of the steps of
\* the program), and time passes (weak fairness of the clock)
Fairness == WF_vars(Next) /\ WF_vars(Tick)
FairSpec == Init /\ [][Next]_vars /\ Fairness

\* ------------------------------------------------------------ properties
\* the number of rejected receipt fetches of invocation p
Rejections(p) ==
  Cardinality({i \in 1..Len(p.receipts) : p.receipts[i] \in {"error", "timeout"}})

FailsOf(p) == Len(p.fails)
TimeoutsOf(p) == Cardinality({i \in 1..Len(p.fails) : p.fails[i] = "timeout"})

RECURSIVE SumFails(_)
SumFails(S) ==
  IF S = {} THEN 0
  ELSE LET x == CHOOSE y \in S : TRUE IN FailsOf(x) + SumFails(S \ {x})

RECURSIVE SumTimeouts(_)
SumTimeouts(S) ==
  IF S = {} THEN 0
  ELSE LET x == CHOOSE y \in S : TRUE IN TimeoutsOf(x) + SumTimeouts(S \ {x})

\* the loop is at the statement that follows a resolved Promise.all
Joined == pc = "joining" /\ \A p \in Batch : p.st = "returned"

\* C1: when a tip poll returns a height below the height returned by the
\* previous tip poll of the loop, the loop terminates through the rollback
\* path (process.exit) at that poll and dispatches nothing.
C1_RollbackTerminates ==
  [][(pc = "polling" /\ lastTip # Undefined /\ lastTip' < lastTip)
       => (pc' = "exited" /\ procs' = procs)]_vars

\* C2: the loop leaves the join of a batch only when no invocation of that
\* batch is still running: an invocation of the current batch that is in
\* flight implies that the loop is awaiting the join.
C2_JoinWaitsForAll ==
  \A p \in procs : (p.gen = gen /\ InFlight(p)) => pc = "joining"

\* C3: inside the loop the pointer changes only at the join of a batch whose
\* invocations have all returned, by exactly the number of invocations that
\* were dispatched, and it does not change while the batch holds an
\* invocation that raised.
C3_PointerAdvance ==
  [][/\ (pc \notin {"start", "resolving"} /\ currBlockNumber' # currBlockNumber)
          => /\ Joined
             /\ Cardinality(Batch) = batchSize
             /\ currBlockNumber' = currBlockNumber + batchSize
     /\ (\E p \in Batch : p.st = "raised") => currBlockNumber' = currBlockNumber
    ]_vars

C3_Witness ==
  /\ raises >= 1 /\ advances >= 1
  /\ pc = "top" /\ currBlockNumber = startBlockNumber + 2

\* C4: an invocation whose block fetch succeeded never raises; when it has
\* returned, all k receipt fetches of the block are settled and it returned
\* exactly one Failure per rejected fetch.
C4_FailureRecords ==
  \A p \in procs :
    /\ p.st = "raised" => ~p.fetched
    /\ p.st = "returned" =>
         /\ p.fetched
         /\ Len(p.receipts) = chain[p.blockNumber]
         /\ \A i \in 1..Len(p.receipts) : p.receipts[i] # "pending"
         /\ Len(p.fails) = Rejections(p)

C4_Witness ==
  \E p \in procs :
    /\ p.st = "returned" /\ Len(p.receipts) = MaxTxs
    /\ p.receipts[1] = "timeout" /\ p.receipts[MaxTxs] = "fulfilled"
    /\ Len(p.fails) = MaxTxs - 1

\* C5: the counters are non-negative and ordered: total call count >=
\* failed-call count >= timeout-classified-call count.
C5_CounterOrder ==
  /\ timeoutCalls >= 0
  /\ failCalls >= timeoutCalls
  /\ totalCalls >= failCalls

\* C6: when the loop has stopped, no invocation that it started is still in
\* flight.
C6_NoInFlightAtExit ==
  pc = "stopped" => \A p \in procs : ~InFlight(p)

\* C7 (as stated): with finishBlockNumber = startBlockNumber + 2*batchSize - 1,
\* no duration configured, no block-fetch failure and no receipt failure, a
\* stopped loop has dispatched exactly two batches and reports
\* finishBlockNumber as its final block.
FinishIsTwoBatches ==
  /\ cfg.batchSize >= 1
  /\ cfg.targetRunningTimeMs = Undefined
  /\ cfg.finishBlockNumber # Undefined
  /\ cfg.finishBlockNumber = startBlockNumber + 2 * cfg.batchSize - 1

NoFailures == raises = 0 /\ failCalls = 0

C7_TwoDispatches ==
  (pc = "stopped" /\ FinishIsTwoBatches /\ NoFailures)
    => (gen = 2 /\ result.finishBlockNumber = cfg.finishBlockNumber)

\* every batch so far had the configured width: the pointer moved by
\* batchSize at each advance
FullWidths == currBlockNumber = startBlockNumber + advances * cfg.batchSize

\* C7 (amended): the same, provided every dispatched batch had the full
\* width batchSize (each dispatching poll saw a tip at least batchSize above
\* the pointer).
C7_TwoFullDispatches ==
  (pc = "stopped" /\ FinishIsTwoBatches /\ NoFailures /\ FullWidths)
    => (gen = 2 /\ result.finishBlockNumber = cfg.finishBlockNumber)

C7_Witness ==
  /\ pc = "stopped" /\ FinishIsTwoBatches /\ NoFailures /\ FullWidths
  /\ cfg.batchSize = 2 /\ gen = 2
  /\ result.finishBlockNumber = cfg.finishBlockNumber

\* C8: the join of a batch whose invocations all returned advances the
\* pointer by the batch width whatever number of Failures they returned; the
\* Failures are added to failCalls, those with a timeout reason to
\* timeoutCalls, and no other counter changes.
C8_ReceiptFailuresDoNotBlock ==
  [][(Joined /\ pc' # "joining")
       => /\ currBlockNumber' = currBlockNumber + batchSize
          /\ failCalls' = failCalls + SumFails(Batch)
          /\ timeoutCalls' = timeoutCalls + SumTimeouts(Batch)
          /\ totalCalls' = totalCalls /\ retryCalls' = retryCalls
    ]_vars

C8_Witness ==
  /\ pc = "top" /\ advances = 1 /\ raises = 0
  /\ failCalls = 2 /\ timeoutCalls = 1
  /\ currBlockNumber = startBlockNumber + batchSize

\* C9: while a batch is being joined, its width is min(cfg.batchSize, tip -
\* pointer) and its invocations are those of the block numbers
\* pointer .. pointer + width - 1.
C9_DispatchRange ==
  pc = "joining" =>
    /\ batchSize = Min(cfg.batchSize, lastTip - currBlockNumber)
    /\ {p.blockNumber : p \in Batch} =
         currBlockNumber .. (currBlockNumber + batchSize - 1)

\* C10: the final block of a TestResult is at least its start block minus
\* one, and equals it exactly when the pointer was never advanced.
C10_FinalBlock ==
  pc = "stopped" =>
    /\ result.finishBlockNumber >= result.startBlockNumber - 1
    /\ (result.finishBlockNumber = result.startBlockNumber - 1) <=> (advances = 0)

C10_Witness ==
  /\ pc = "stopped" /\ advances = 0 /\ raises >= 1
  /\ result.finishBlockNumber = result.startBlockNumber - 1

\* one of the two stopping conditions holds of the pointer and the clock
StopCondition ==
  \/ cfg.finishBlockNumber # Undefined /\ currBlockNumber > cfg.finishBlockNumber
  \/ cfg.targetRunningTimeMs # Undefined /\ now >= cfg.targetRunningTimeMs

\* C11: the stopping conditions are checked at the head of every iteration,
\* before any RPC call of the iteration: a tip poll is issued only from the
\* head of the loop and only when neither condition holds, a batch is
\* dispatched only from a tip poll, and an iteration begun while a condition
\* holds stops the loop without a poll and without a dispatch.
C11_StopBeforeRpc ==
  [][ /\ (pc = "top" /\ StopCondition) =>
            (pc' \in {"top", "stopped"} /\ gen' = gen /\ lastTip' = lastTip)
      /\ (pc # "polling" /\ pc' = "polling") => (pc = "top" /\ ~StopCondition)
      /\ (pc # "stopped" /\ pc' = "stopped") => (pc = "top" /\ StopCondition)
      /\ gen' # gen => pc = "polling"
    ]_vars

C11_Witness ==
  /\ pc = "stopped" /\ gen >= 1
  /\ cfg.targetRunningTimeMs # Undefined /\ now = cfg.targetRunningTimeMs

\* C12: a tip poll answered with a height at or below the pointer dispatches
\* nothing and leaves the pointer and the failure counters as they are; the
\* loop sleeps SLEEP_MS and then returns to the head of the loop, and nothing
\* else happens to the pointer, the counters or the batches during the sleep.
C12_CaughtUpSleeps ==
  [][ /\ ( /\ pc = "polling" /\ pc' \in {"sleeping", "joining", "exited"}
            /\ lastTip' <= currBlockNumber ) =>
            /\ pc' = "sleeping" /\ wakeAt' = now + SLEEP_MS
            /\ gen' = gen /\ procs' = procs
            /\ currBlockNumber' = currBlockNumber
            /\ failCalls' = failCalls /\ timeoutCalls' = timeoutCalls
      /\ pc = "sleeping" =>
            /\ pc' \in {"sleeping", "top"}
            /\ pc' = "top" => now >= wakeAt
            /\ gen' = gen
            /\ currBlockNumber' = currBlockNumber
            /\ failCalls' = failCalls /\ timeoutCalls' = timeoutCalls
    ]_vars

C12_Witness ==
  pc = "sleeping" /\ advances >= 1 /\ lastTip <= currBlockNumber

\* the batch dispatched last was aborted by a raising invocation
Aborted == \E p \in Batch : p.st = "raised"
BlocksOf(S) == {p.blockNumber : p \in S}

PointerAndCounters(i) ==
  <<Schedulers[i].currBlockNumber, Schedulers[i].totalCalls,
    Schedulers[i].failCalls, Schedulers[i].timeoutCalls,
    Schedulers[i].retryCalls>>

\* C14: with several schedulers launched by main, a step of one scheduler
\* leaves the pointer and the counters of every other scheduler unchanged,
\* and so does the passage from one scheduler to another.
C14_Independent ==
  [][ \A i \in DOMAIN Schedulers :
        (i # focus \/ focus' # focus) =>
          PointerAndCounters(i)' = PointerAndCounters(i) ]_vars

C14_Witness ==
  /\ DOMAIN parked # {}
  /\ \A i \in DOMAIN Schedulers :
        Schedulers[i].advances >= 1 /\ Schedulers[i].totalCalls >= 2
  /\ \E i, j \in DOMAIN Schedulers :
        PointerAndCounters(i) # PointerAndCounters(j)

\* neither stopping condition is configured
Unbounded ==
  cfg.finishBlockNumber = Undefined /\ cfg.targetRunningTimeMs = Undefined

\* C15: a loop configured with neither a finish block nor a target duration
\* never reaches the stopped state and never produces a TestResult.
C15_NeverStops == Unbounded => (pc # "stopped" /\ result = NoResult)

C15_Witness == Unbounded /\ pc = "polling" /\ advances >= 1

\* C16: retryFunc declines for every response and every attempt number, and
\* retryCalls is 0 in every reachable state and in every TestResult.
C16_NoRetries ==
  /\ \A statusCode \in {200, 429, 500}, attempt \in 0..4 :
        ~RetryFunc(statusCode, attempt)
  /\ retryCalls = 0
  /\ result.retryCalls = 0

C16_Witness ==
  /\ pc = "stopped" /\ result.failCalls >= 1 /\ result.retryCalls = 0

\* C19: the invocations of processBlock in flight are never more than
\* cfg.batchSize, and no block number has two invocations in flight.
C19_BoundedInFlight ==
  /\ Cardinality({p \in procs : InFlight(p)}) <= cfg.batchSize
  /\ \A p, q \in procs :
        (InFlight(p) /\ InFlight(q) /\ p.blockNumber = q.blockNumber) => p = q

\* startScheduler has ended: it returned, its promise rejected, or it ended
\* the process
Terminated(s) == s.pc \in {"stopped", "rejected", "exited"}

\* C17: every scheduler that has terminated has produced its TestResult,
\* also one whose initial tip query failed, and main prints the summary only
\* when every scheduler it launched has terminated.
C17_ResultPerScheduler ==
  /\ \A i \in DOMAIN Schedulers :
        Terminated(Schedulers[i]) => Schedulers[i].result # NoResult
  /\ mainPc = "rendered" =>
        \A i \in DOMAIN Schedulers : Terminated(Schedulers[i])

\* C18: under fair scheduling, a loop configured with a target duration
\* eventually stops and has returned a TestResult.
C18_EventuallyStops ==
  cfg.targetRunningTimeMs # Undefined => <>(pc = "stopped" /\ result # NoResult)

Max(a, b) == IF a >= b THEN a ELSE b

\* C20: once the start block is known, the pointer is at most the larger of
\* the start block and the highest tip polled so far; every block number
\* handed to processBlock is at most the highest tip polled, and those of the
\* batch being joined are at most the tip polled in that iteration.
C20_PointerBelowTip ==
  /\ pc \notin {"start", "resolving", "rejected"} =>
        currBlockNumber <= Max(startBlockNumber, highTip)
  /\ \A p \in procs : p.blockNumber <= highTip
  /\ pc = "joining" => \A p \in Batch : p.blockNumber <= lastTip

C20_Witness ==
  /\ pc = "joining" /\ advances >= 1
  /\ \E p \in Batch : p.blockNumber = lastTip
  /\ currBlockNumber > startBlockNumber

\* C21: when the loop has stopped with the pointer past the finish block, the
\* final block F of its TestResult satisfies finishBlockNumber <= F <=
\* max(startBlockNumber - 1, finishBlockNumber + batchSize - 1).
C21_FinishOvershoot ==
  ( /\ pc = "stopped" /\ cfg.finishBlockNumber # Undefined
    /\ currBlockNumber > cfg.finishBlockNumber ) =>
      /\ cfg.finishBlockNumber <= result.finishBlockNumber
      /\ result.finishBlockNumber <=
           Max(startBlockNumber - 1, cfg.finishBlockNumber + cfg.batchSize - 1)

C21_Witness ==
  /\ pc = "stopped" /\ advances >= 1 /\ cfg.finishBlockNumber # Undefined
  /\ result.finishBlockNumber > cfg.finishBlockNumber
  /\ result.finishBlockNumber = cfg.finishBlockNumber + cfg.batchSize - 1

\* C22: failCalls and timeoutCalls change only in the step that joins a batch
\* none of whose invocations raised, the step that also advances the pointer,
\* and then by the Failures the invocations of that batch returned; the step
\* that aborts a batch leaves both counters as they are, whatever its other
\* invocations returned.
C22_CountedOnlyAtJoin ==
  [][ /\ (failCalls' # failCalls \/ timeoutCalls' # timeoutCalls) =>
            /\ Joined /\ ~Aborted
            /\ advances' = advances + 1
            /\ currBlockNumber' > currBlockNumber
            /\ failCalls' = failCalls + SumFails(Batch)
            /\ timeoutCalls' = timeoutCalls + SumTimeouts(Batch)
      /\ (Aborted \/ Aborted') =>
            (failCalls' = failCalls /\ timeoutCalls' = timeoutCalls)
    ]_vars

C22_Witness ==
  /\ Aborted /\ pc # "joining" /\ failCalls = 0 /\ timeoutCalls = 0
  /\ \E p \in Batch : p.st = "returned" /\ TimeoutsOf(p) >= 1

====
